---- MODULE Spec2Model ----
(***************************************************************************)
(* FinGPT-Forecaster: the checkpointed phase orchestrator                  *)
(* (cron_pipeline.py) and the disk-backed rate limiter (rate_limiter.py).  *)
(*                                                                         *)
(* The state machines of this module:                                      *)
(*   Spec / SpecAnyCkpt  - run_cron, one process at a time, over the       *)
(*                         checkpoint file, the evaluation history and the *)
(*                         deployment config;                              *)
(*   SpecKill            - the same, a run being killed at any point;      *)
(*   SpecCommit, SpecTrain, SpecHist, SpecDeploy, SpecHealth               *)
(*                       - one phase or helper of run_cron on every input; *)
(*   SpecDaemon          - run_pipeline of apscheduler_daemon.py;          *)
(*   SpecIndex           - run_cron started with any --index;              *)
(*   SpecRL / SpecRL1    - wait_if_needed called by concurrent processes,  *)
(*                         or by one, over one diskcache store;            *)
(*   SpecRLFair          - the same, called for ever under fair            *)
(*                         scheduling.                                     *)
(***************************************************************************)
EXTENDS Integers, Sequences, FiniteSets, TLC

\* ------------------------------------------------------------------ bounds
MaxClock == 2
MaxTime == 3
MaxCallsStarted == 3
\* an instant is a day and a part of that day
DayParts == {"am", "pm"}
UnitsPerDay == Cardinality(DayParts)
MaxRuns == 2
MaxLogLines == 2
MaxSaves == 2
MaxTimeout == 2
MaxInterval == 2
MaxDelay == 1
\* timeout=3600 of the daemon (apscheduler_daemon.py line 42), in units of
\* half an hour
RunTimeout == 2

ModelPaths == {"M1"}
MetricsSet == {"m1"}
\* --index as the scheduler daemon passes it (apscheduler_daemon.py line 37)
IndexChoices == {"dow"}
\* --weeks: 0, and 2 (the default, and what the daemon passes)
WeeksBackChoices == {0, 2}

VARIABLES
  clock,          \* wall clock, in units of 1/UnitsPerDay day
  ckpt,           \* pipeline_checkpoint.json
  eval_history,   \* evaluation_history.json
  model_config,   \* model_config.json: latest_model_path ("" when absent)
  pc,             \* position of the orchestrator process in run_cron
  runs,           \* processes started so far
  weeks_back,     \* --weeks of the current process
  index_name,     \* --index of the current process
  start_date, end_date, existing_paths,   \* locals of run_cron (line 335)
  all_paths, model_path,                  \* locals of run_cron (338, 352)
  trace,          \* phases of the current run, with the result each returned
  outcome,        \* how the last process that ended did end
  exit_code,      \* exit status of the last process that ended
  log_all,        \* checkpoint warnings and errors in cron_pipeline.log
  produced,       \* dataset paths of the successful acquisitions, in order
  ckpt_before,    \* the checkpoint file as the running process found it
  last_gtw,       \* end of the latest get_time_window whose write is intact
  prev_gtw,       \* last_gtw as the get_time_window of this process found it
  committed,      \* dataset_paths of the last commit whose write completed
  hist_attempts,  \* calls of _save_eval_history made by the current run
  t_out,          \* what step4_train_lora parsed from the log it returned on
  \* ---- inputs of step4_train_lora
  tlog,           \* the training log the subprocess leaves
  models_dir,     \* ./finetuned_models
  t_proc,         \* how the training subprocess ends
  \* ---- input of step5_deploy_model
  d_res,          \* how the steps of the deployment end
  \* ---- calls of _save_eval_history
  h_start,        \* evaluation_history.json before the first call
  h_given,        \* the entries passed to the calls so far, in call order
  h_write_failed, \* a write of evaluation_history.json has failed
  \* ---- a call of _health_check
  hc_pc,          \* position in _health_check
  hc_cfg,         \* its arguments timeout_secs and interval_secs
  hc_deadline,    \* local `deadline` (line 271)
  hc_polls,       \* the polls issued so far: when, and how urlopen ended
  hc_delay,       \* time spent inside urlopen and oversleeping, in total
  hc_result,      \* what the call returned, or "raised"
  \* ---- scheduler daemon
  s_elapsed,      \* time since run_pipeline started the current process
  s_report,       \* what run_pipeline logged about the process it started
  \* ---- rate limiter
  rtime,          \* time.time()
  cache,          \* the diskcache store: key -> list of timestamps
  rl_pc,          \* position of each process in wait_if_needed
  rl_svc,         \* the service of the limiter each process calls
  rl_now,         \* local `now` (line 24)
  rl_calls,       \* local `calls` (lines 26-33)
  rl_wake,        \* earliest instant at which time.sleep returns
  rl_started,     \* calls of wait_if_needed made so far
  rl_slept,       \* sleeps each process has finished inside its current call (0, 1, more)
  admitted        \* the calls that returned: service and recorded timestamp

pvars == <<clock, ckpt, eval_history, model_config, pc, runs, weeks_back,
           index_name, start_date, end_date, existing_paths, all_paths,
           model_path, trace, outcome, exit_code, log_all, produced,
           ckpt_before, last_gtw, prev_gtw, committed, hist_attempts,
           t_out>>

rvars == <<rtime, cache, rl_pc, rl_svc, rl_now, rl_calls, rl_wake,
           rl_started, rl_slept, admitted>>

tvars == <<tlog, models_dir, t_proc, d_res>>

hvars == <<h_start, h_given, h_write_failed>>

kvars == <<hc_pc, hc_cfg, hc_deadline, hc_polls, hc_delay, hc_result>>

svars == <<s_elapsed, s_report>>

vars == <<pvars, rvars, tvars, hvars, kvars, svars>>

\* ------------------------------------------------------- checkpoint file
CkptKeys == {"last_end_date", "last_run_time", "index_name", "dataset_paths"}

\* A file holding a JSON object with the keys `keys`; a field whose key is
\* absent carries a fixed filler so that equal files are equal values.
ObjFile(keys, led, lrt, idx, dp) ==
  [kind |-> "obj", keys |-> keys,
   last_end_date |-> IF "last_end_date" \in keys THEN led ELSE 0,
   last_run_time |-> IF "last_run_time" \in keys THEN lrt ELSE 0,
   index_name    |-> IF "index_name" \in keys THEN idx ELSE "",
   dataset_paths |-> IF "dataset_paths" \in keys THEN dp ELSE <<>>]

AbsentFile  == [ObjFile({}, 0, 0, "", <<>>) EXCEPT !.kind = "absent"]
\* content json.load rejects (also the empty or half-written file)
InvalidFile == [ObjFile({}, 0, 0, "", <<>>) EXCEPT !.kind = "invalid"]
\* valid JSON whose top-level value is a list, a number, a string or null
NonObjFile  == [ObjFile({}, 0, 0, "", <<>>) EXCEPT !.kind = "nonobj"]

\* The dataset_paths a reader of the file finds in it.
StoredPaths(ck) ==
  IF ck.kind = "obj" /\ "dataset_paths" \in ck.keys THEN ck.dataset_paths ELSE <<>>

HasBoundary(ck) == ck.kind = "obj" /\ "last_end_date" \in ck.keys

\* with open(path, 'w') as f: json.dump(new, f)
\*   "ok"         the document is written
\*   "open_fails" open() raises: the file is left as it was
\*   "dump_fails" the write raises after open() truncated the file
WriteOutcomes == {"ok", "open_fails", "dump_fails"}

WriteFile(old, new, wr) ==
  CASE wr = "ok"         -> new
    [] wr = "open_fails" -> old
    [] wr = "dump_fails" -> InvalidFile

\* ------------------------------------------------------- get_time_window
\* datetime.strftime("%Y-%m-%d"): the calendar day of an instant.
Date(t) == t \div UnitsPerDay

\* (datetime.now() - timedelta(days=7 * weeks_back)).strftime("%Y-%m-%d")
LookbackStart(now, wb) == Date(now - 7 * wb * UnitsPerDay)

\* Lines 38-53: what the read of the checkpoint yields.
\*   raised: an exception that the except clause does not catch
\*   warned: the "Checkpoint file corrupted" warning was logged
LoadWindowIgnoresCheckpoint(ck, now, wb) ==
  [raised |-> FALSE, warned |-> FALSE,
   start |-> LookbackStart(now, wb), paths |-> StoredPaths(ck)]

LoadWindow(ck, now, wb) ==
  CASE ck.kind = "absent" ->
         \* line 53
         [raised |-> FALSE, warned |-> FALSE,
          start |-> LookbackStart(now, wb), paths |-> <<>>]
    [] ck.kind = "invalid" ->
         \* json.load raises JSONDecodeError: lines 47-49
         [raised |-> FALSE, warned |-> TRUE,
          start |-> LookbackStart(now, wb), paths |-> <<>>]
    [] ck.kind = "nonobj" ->
         \* checkpoint["last_end_date"] on a list, number, string or None
         \* raises TypeError, which line 47 does not catch
         [raised |-> TRUE, warned |-> FALSE, start |-> 0, paths |-> <<>>]
    [] ck.kind = "obj" /\ "last_end_date" \notin ck.keys ->
         \* line 43 raises KeyError before line 44 reads dataset_paths
         [raised |-> FALSE, warned |-> TRUE,
          start |-> LookbackStart(now, wb), paths |-> <<>>]
    [] OTHER ->
         \* lines 43-44
         [raised |-> FALSE, warned |-> FALSE,
          start |-> ck.last_end_date, paths |-> StoredPaths(ck)]

\* Lines 58-63: the document get_time_window writes.
WindowCheckpointDropsPaths(end, now, paths) ==
  ObjFile(CkptKeys, end, now, "dow", <<>>)

WindowCheckpointKeepsBoundary(end, now, paths) ==
  ObjFile(CkptKeys, end - 1, now, "dow", paths)

WindowCheckpoint(end, now, paths) ==
  ObjFile(CkptKeys, end, now, "dow", paths)

\* --------------------------------------- _update_checkpoint_dataset_paths
\* Lines 75-79: the document to write, or the exception caught at line 83.
UpdatedCheckpointResetsOthers(ck, paths) ==
  IF ck.kind \in {"invalid", "nonobj"}
  THEN [failed |-> TRUE, doc |-> ck]
  ELSE [failed |-> FALSE, doc |-> ObjFile({"dataset_paths"}, 0, 0, "", paths)]

UpdatedCheckpointKeepsPaths(ck, paths) ==
  IF ck.kind \in {"invalid", "nonobj"}
  THEN [failed |-> TRUE, doc |-> ck]
  ELSE [failed |-> FALSE,
        doc |-> ObjFile(ck.keys \cup {"dataset_paths"}, ck.last_end_date,
                        ck.last_run_time, ck.index_name, StoredPaths(ck))]

UpdatedCheckpoint(ck, paths) ==
  CASE ck.kind = "absent" ->
         [failed |-> FALSE, doc |-> ObjFile({"dataset_paths"}, 0, 0, "", paths)]
    [] ck.kind = "invalid" ->
         \* json.load raises
         [failed |-> TRUE, doc |-> ck]
    [] ck.kind = "nonobj" ->
         \* item assignment on a non-dict raises TypeError
         [failed |-> TRUE, doc |-> ck]
    [] OTHER ->
         [failed |-> FALSE,
          doc |-> ObjFile(ck.keys \cup {"dataset_paths"}, ck.last_end_date,
                          ck.last_run_time, ck.index_name, paths)]

\* ---------------------------------------------------- _save_eval_history
AbsentHistory  == [kind |-> "absent", history |-> <<>>]
InvalidHistory == [kind |-> "invalid", history |-> <<>>]
\* valid JSON that holds no "history" list, such as {}
NoListHistory  == [kind |-> "nolist", history |-> <<>>]

\* The keys of a metrics map that are also fields of the record, and the
\* value the map gives them: the payload "clash" stands for a map such as
\* {"model_path": "from_metrics", "bin_acc": 0.7}.
ClashingKeys(metrics) ==
  IF metrics = "clash" THEN {"model_path"} ELSE {}

\* Lines 124-129: entry = {run_time, num_datasets, model_path};
\* entry.update(metrics) - a key of metrics replaces the field of that name.
MergedEntry(entry) ==
  IF "model_path" \in ClashingKeys(entry.metrics)
  THEN [entry EXCEPT !.model_path = "from_metrics"]
  ELSE entry

AppendedHistoryOverwrites(h, entry) ==
  [failed |-> h.kind \in {"invalid", "nolist"} \/ entry.metrics = "null",
   doc |-> [kind |-> "obj", history |-> <<entry>>]]

\* Lines 120-130: the document to write, or the exception caught at 134
\* (json.load raises; entry.update(metrics) raises TypeError on a metrics
\* value that is no map; history["history"] raises KeyError or TypeError).
AppendedHistory(h, entry) ==
  CASE h.kind \in {"invalid", "nolist"} -> [failed |-> TRUE, doc |-> h]
    [] entry.metrics = "null" -> [failed |-> TRUE, doc |-> h]
    [] OTHER -> [failed |-> FALSE,
                 doc |-> [kind |-> "obj",
                          history |-> Append(h.history, MergedEntry(entry))]]

WriteHistory(old, new, wr) ==
  CASE wr = "ok"         -> new
    [] wr = "open_fails" -> old
    [] wr = "dump_fails" -> InvalidHistory

\* Lines 119-135: the file after the call.
SaveEvalHistory(h, entry, wr) ==
  LET a == AppendedHistory(h, entry)
  IN IF a.failed THEN h ELSE WriteHistory(h, a.doc, wr)

SaveRaisesOnFailure(h, entry, wr) ==
  AppendedHistory(h, entry).failed \/ wr # "ok"

\* Lines 119 and 134-135: the whole body is inside try ... except Exception,
\* whose handler only logs; no exception leaves _save_eval_history.
SaveRaises(h, entry, wr) == FALSE

\* --------------------------------------------------------- training log
\* A line of the training log: tag "path" for a line that starts with
\* TRAINED_MODEL_PATH:, "metrics" for one that starts with
\* EVAL_METRICS_JSON:, "other" for any other line.
LogLine(tag, payload) == [tag |-> tag, payload |-> payload]

PathNames == {"M1", "M2"}

\* Payloads of a metrics line: two JSON objects, text that is no JSON
\* ("bad"), JSON that is no object and is truthy, such as [1] ("nonobj"),
\* and JSON that is no object and is falsy, such as null ("null").
MetricsPayloads == {"m1", "m2", "bad", "nonobj", "null"}

\* _parse_eval_metrics lines 97-103: the loop over the lines, inside one
\* try block; json.loads raising ends the loop with `metrics` as it is.
RECURSIVE ScanMetrics(_, _, _)
ScanMetrics(lines, i, metrics) ==
  IF i > Len(lines) THEN metrics
  ELSE IF lines[i].tag # "metrics" THEN ScanMetrics(lines, i + 1, metrics)
  ELSE IF lines[i].payload = "bad" THEN metrics
  ELSE ScanMetrics(lines, i + 1, lines[i].payload)

\* _parse_eval_metrics, lines 87-113.  "empty" is {}.  A file that cannot
\* be opened gives {} (line 104); a truthy value that is no dict makes
\* metrics.get at line 108 raise AttributeError.
ParseEvalMetrics(log) ==
  LET metrics == IF log.exists THEN ScanMetrics(log.lines, 1, "empty")
                 ELSE "empty"
  IN IF metrics = "nonobj"
     THEN [raised |-> TRUE, metrics |-> "empty"]
     ELSE [raised |-> FALSE, metrics |-> metrics]

\* step4_train_lora lines 230-235: the first line with the prefix, then
\* break; "" is None.
RECURSIVE ParseModelPath(_, _)
ParseModelPath(lines, i) ==
  IF i > Len(lines) THEN ""
  ELSE IF lines[i].tag = "path" THEN lines[i].payload
  ELSE ParseModelPath(lines, i + 1)

\* ./finetuned_models: whether it exists, and its subdirectories in
\* os.listdir order with their modification times.
MissingModelsDir == [exists |-> FALSE, subdirs |-> <<>>]
EmptyModelsDir   == [exists |-> TRUE, subdirs |-> <<>>]

\* Line 237: model_path and os.path.isdir(model_path)
IsDir(path, dir) ==
  /\ path # ""
  /\ dir.exists
  /\ \E i \in DOMAIN dir.subdirs : dir.subdirs[i].name = path

\* Line 249: max(subdirs, key=os.path.getmtime), the first of the latest.
LatestSubdir(subdirs) ==
  LET best == CHOOSE i \in DOMAIN subdirs :
                /\ \A j \in DOMAIN subdirs : subdirs[j].mtime <= subdirs[i].mtime
                /\ \A j \in 1..(i - 1) : subdirs[j].mtime < subdirs[i].mtime
  IN subdirs[best].name

ProcOutcomes == {"exit_zero", "exit_nonzero", "spawn_error"}

TrainResult(result, path, sentinel, metrics) ==
  [result |-> result, model_path |-> path, sentinel |-> sentinel,
   metrics |-> metrics]

\* step4_train_lora lines 213-262, up to the call of _save_eval_history.
\*   "spawn_error"   subprocess.run or open() raises something that is no
\*                   CalledProcessError: not caught at line 260
\*   "exit_nonzero"  CalledProcessError: (False, None)
\*   "exit_zero"     the log is parsed
TrainLora(proc, log, dir) ==
  LET sentinel == ParseModelPath(log.lines, 1)
      m        == ParseEvalMetrics(log)
  IN CASE proc = "spawn_error"  -> TrainResult("raised", "", "", "empty")
       [] proc = "exit_nonzero" -> TrainResult("fail", "", "", "empty")
       [] ~log.exists ->
            \* open(training_log, 'r') at line 231 raises
            TrainResult("raised", "", "", "empty")
       [] IsDir(sentinel, dir) ->
            IF m.raised THEN TrainResult("raised", "", sentinel, "empty")
            ELSE TrainResult("ok", sentinel, sentinel, m.metrics)
       [] ~dir.exists ->
            \* os.listdir at line 243 raises FileNotFoundError
            TrainResult("raised", "", sentinel, "empty")
       [] dir.subdirs = <<>> ->
            \* line 248
            TrainResult("fail", "", sentinel, "empty")
       [] OTHER ->
            IF m.raised THEN TrainResult("raised", "", sentinel, "empty")
            ELSE TrainResult("ok", LatestSubdir(dir.subdirs), sentinel,
                             m.metrics)

\* Lines 255-256 are reached only when no return and no exception came
\* before them.
SavesHistoryAlways(result) == TRUE

SavesHistory(result) == result = "ok"

NoOut == [sentinel |-> "", metrics |-> "empty"]

\* ------------------------------------------------------------- run_cron
\* data_pipeline.main(args): the path of the dataset directory it saved
\* encodes the index name and the start and end dates of args (the other
\* parameters are fixed at lines 157-159).
DatasetPath(idx, start, end) == <<idx, start, end>>

\* The logs and the models directories the training subprocess leaves in
\* the runs of run_cron: the sentinel line and one metrics line; no models
\* directory, an empty one, or one that holds the trained model.
RunLogs ==
  {[exists |-> TRUE,
    lines |-> <<LogLine("path", p), LogLine("metrics", m)>>] :
     p \in ModelPaths, m \in MetricsSet}

RunModelsDirs ==
  {MissingModelsDir, EmptyModelsDir} \cup
  {[exists |-> TRUE, subdirs |-> <<[name |-> p, mtime |-> 1]>>] :
     p \in ModelPaths}

\* No training input is held in the state: run_cron draws it when the
\* training phase runs.
InitNoTraining ==
  /\ tlog = [exists |-> FALSE, lines |-> <<>>]
  /\ models_dir = MissingModelsDir
  /\ t_proc = "exit_zero"
  /\ d_res = "healthy"

InitNoSaves ==
  /\ h_start = AbsentHistory
  /\ h_given = <<>>
  /\ h_write_failed = FALSE

\* No process started by the scheduler daemon.
InitNoDaemon ==
  /\ s_elapsed = 0
  /\ s_report = "none"

\* No call of _health_check is under way.
InitNoHealthCheck ==
  /\ hc_pc = "idle"
  /\ hc_cfg = [timeout_secs |-> 0, interval_secs |-> 0]
  /\ hc_deadline = 0
  /\ hc_polls = <<>>
  /\ hc_delay = 0
  /\ hc_result = "none"

PhaseOrder == <<"window", "data", "commit", "train", "deploy">>

InitPipeline ==
  /\ clock = 0
  /\ ckpt = AbsentFile
  /\ eval_history = AbsentHistory
  /\ model_config = ""
  /\ pc = "idle"
  /\ runs = 0
  /\ weeks_back = 0
  /\ index_name = ""
  /\ start_date = 0
  /\ end_date = 0
  /\ existing_paths = <<>>
  /\ all_paths = <<>>
  /\ model_path = ""
  /\ trace = <<>>
  /\ outcome = "none"
  /\ exit_code = 0
  /\ log_all = {}
  /\ produced = <<>>
  /\ ckpt_before = AbsentFile
  /\ last_gtw = [valid |-> FALSE, end |-> 0]
  /\ prev_gtw = [valid |-> FALSE, end |-> 0]
  /\ committed = <<>>
  /\ hist_attempts = 0
  /\ t_out = NoOut
  /\ InitNoTraining
  /\ InitNoSaves

\* The process ends: run_cron returned (exit status 0) or an exception
\* left it (traceback, exit status 1).  Its locals are gone with it.
Exit(how, code) ==
  /\ pc' = "idle"
  /\ outcome' = how
  /\ exit_code' = code
  /\ weeks_back' = 0
  /\ index_name' = ""
  /\ start_date' = 0
  /\ end_date' = 0
  /\ existing_paths' = <<>>
  /\ all_paths' = <<>>
  /\ model_path' = ""
  /\ ckpt_before' = AbsentFile
  /\ prev_gtw' = [valid |-> FALSE, end |-> 0]
  /\ t_out' = NoOut

\* Time passes between two scheduled runs (the time a phase takes is read
\* by no later step except inside get_time_window, where it is d).
Tick ==
  /\ pc = "idle"
  /\ runs < MaxRuns
  /\ clock < MaxClock
  /\ clock' = clock + 1
  /\ UNCHANGED <<ckpt, eval_history, model_config, pc, runs, weeks_back,
                 index_name, start_date, end_date, existing_paths, all_paths,
                 model_path, trace, outcome, exit_code, log_all,
                 produced, ckpt_before, last_gtw, prev_gtw>>
  /\ UNCHANGED committed
  /\ UNCHANGED <<hist_attempts, t_out>>
  /\ UNCHANGED <<rvars, tvars, hvars, kvars, svars>>

\* __main__ with --run (lines 367-377): run_cron is entered with the
\* arguments --weeks wb and --index idx.
EnterRun(wb, idx) ==
  /\ pc = "idle"
  /\ runs < MaxRuns
  /\ weeks_back' = wb
  /\ index_name' = idx
  /\ runs' = runs + 1
  /\ pc' = "window"
  /\ trace' = <<>>
  /\ ckpt_before' = ckpt
  /\ UNCHANGED <<clock, ckpt, eval_history, model_config, log_all, produced,
                 start_date, end_date, existing_paths, all_paths, model_path,
                 outcome, exit_code, last_gtw, prev_gtw>>
  /\ UNCHANGED committed
  /\ hist_attempts' = 0
  /\ UNCHANGED t_out
  /\ UNCHANGED <<rvars, tvars, hvars, kvars>>

\* A process is started with --run by anything but the daemon.
StartRun ==
  /\ \E wb \in WeeksBackChoices, idx \in IndexChoices : EnterRun(wb, idx)
  /\ UNCHANGED svars

\* run_cron line 335: get_time_window(weeks_back), lines 25-68.
\* d: the time that passes between the call of datetime.now() at line 34
\* and the later calls at lines 49/53 and 60.
GetTimeWindow ==
  /\ pc = "window"
  /\ \E d \in 0..1, wr \in WriteOutcomes :
       LET now1 == clock
           now2 == clock + d
           end  == Date(now1)
           r    == LoadWindow(ckpt, now2, weeks_back)
           new  == WriteFile(ckpt, WindowCheckpoint(end, now2, r.paths), wr)
           errs == (IF r.warned THEN {"warn_checkpoint_corrupted"} ELSE {})
                   \cup (IF wr # "ok" THEN {"err_save_checkpoint"} ELSE {})
       IN /\ now2 <= MaxClock
          /\ clock' = now2
          /\ IF r.raised
             THEN \* the TypeError propagates out of run_cron
                  /\ wr = "ok"
                  /\ Exit("crashed", 1)
                  /\ trace' = Append(trace, [phase |-> "window", result |-> "raised"])
                  /\ last_gtw' = [valid |-> FALSE, end |-> 0]
                  /\ UNCHANGED <<ckpt, log_all>>
             ELSE /\ ckpt' = new
                  /\ start_date' = r.start
                  /\ end_date' = end
                  /\ existing_paths' = r.paths
                  /\ pc' = "data"
                  /\ trace' = Append(trace, [phase |-> "window", result |-> "none"])
                  /\ log_all' = log_all \cup errs
                  /\ prev_gtw' = last_gtw
                  /\ last_gtw' = [valid |-> (wr = "ok"), end |-> end]
                  /\ UNCHANGED <<outcome, exit_code, weeks_back, index_name,
                                 all_paths, model_path, ckpt_before, t_out>>
  /\ UNCHANGED <<eval_history, model_config, runs, produced>>
  /\ UNCHANGED committed
  /\ UNCHANGED hist_attempts
  /\ UNCHANGED <<rvars, tvars, hvars, kvars, svars>>

\* Lines 344, 353, 359: `if not success: ... return` - whether run_cron
\* goes on to the next phase.
ProceedsAlways(success) == TRUE

Proceeds(success) == success

\* run_cron lines 338-346: step1_to_3_data_pipeline (lines 138-176).
\*   "ok"      run_data_pipeline returns a path that exists (line 172)
\*   "nopath"  it returns None or a path that does not exist (line 167)
\*   "raise"   it raises (line 176)
Step1To3DataPipeline ==
  /\ pc = "data"
  /\ \E res \in {"ok", "nopath", "raise"} :
       LET success      == res = "ok"
           dataset_path == DatasetPath(index_name, start_date, end_date)
           paths        == IF success THEN existing_paths \o <<dataset_path>>
                           ELSE existing_paths
       IN /\ produced' = IF success THEN Append(produced, dataset_path)
                         ELSE produced
          /\ trace' = Append(trace, [phase |-> "data",
                                     result |-> IF success THEN "ok" ELSE "fail"])
          /\ IF Proceeds(success)
             THEN /\ all_paths' = paths
                  /\ pc' = "commit"
                  /\ UNCHANGED <<outcome, exit_code, weeks_back, index_name,
                                 start_date, end_date, existing_paths,
                                 model_path, ckpt_before, prev_gtw, t_out>>
             ELSE Exit("aborted_data", 0)
  /\ UNCHANGED <<clock, ckpt, eval_history, model_config, runs, log_all,
                 last_gtw>>
  /\ UNCHANGED committed
  /\ UNCHANGED hist_attempts
  /\ UNCHANGED <<rvars, tvars, hvars, kvars, svars>>

\* run_cron line 349: _update_checkpoint_dataset_paths(all_paths), 71-84.
UpdateCheckpointDatasetPaths ==
  /\ pc = "commit"
  /\ \E wr \in WriteOutcomes :
       LET u    == UpdatedCheckpoint(ckpt, all_paths)
           new  == IF u.failed THEN ckpt ELSE WriteFile(ckpt, u.doc, wr)
           bad  == u.failed \/ wr # "ok"
           errs == IF bad THEN {"err_update_checkpoint"} ELSE {}
       IN /\ (u.failed => wr = "ok")
          /\ ckpt' = new
          /\ log_all' = log_all \cup errs
          /\ last_gtw' = [last_gtw EXCEPT !.valid =
                            /\ last_gtw.valid
                            /\ HasBoundary(new)
                            /\ HasBoundary(ckpt)
                            /\ new.last_end_date = ckpt.last_end_date]
          /\ committed' = IF bad THEN committed ELSE all_paths
  /\ trace' = Append(trace, [phase |-> "commit", result |-> "none"])
  /\ pc' = "train"
  /\ UNCHANGED <<clock, eval_history, model_config, runs, weeks_back,
                 index_name, start_date, end_date, existing_paths, all_paths,
                 model_path, outcome, exit_code, produced, ckpt_before,
                 prev_gtw>>
  /\ UNCHANGED <<hist_attempts, t_out>>
  /\ UNCHANGED <<rvars, tvars, hvars, kvars, svars>>

\* run_cron lines 352-355: step4_train_lora(all_paths), lines 179-262,
\* with the training subprocess ending as proc and leaving the log `log`
\* and the models directory `dir`.
Step4TrainLora(proc, log, dir) ==
  /\ pc = "train"
  /\ \E hw \in WriteOutcomes, r \in {TrainLora(proc, log, dir)} :
       LET entry == [num_datasets |-> Len(all_paths),
                     model_path |-> r.model_path, metrics |-> r.metrics]
           saves == SavesHistory(r.result)
           result == IF saves /\ SaveRaises(eval_history, entry, hw)
                     THEN "raised" ELSE r.result
       IN /\ (~saves \/ AppendedHistory(eval_history, entry).failed)
               => hw = "ok"
          /\ eval_history' = IF saves
                             THEN SaveEvalHistory(eval_history, entry, hw)
                             ELSE eval_history
          /\ hist_attempts' = hist_attempts + (IF saves THEN 1 ELSE 0)
          /\ trace' = Append(trace, [phase |-> "train", result |-> result])
          /\ IF result = "raised"
             THEN Exit("crashed", 1)
             ELSE IF Proceeds(result = "ok")
             THEN /\ model_path' = r.model_path
                  /\ pc' = "deploy"
                  /\ t_out' = [sentinel |-> r.sentinel, metrics |-> r.metrics]
                  /\ UNCHANGED <<outcome, exit_code, weeks_back, index_name,
                                 start_date, end_date, existing_paths,
                                 all_paths, ckpt_before, prev_gtw>>
             ELSE Exit("aborted_train", 0)
  /\ UNCHANGED <<clock, ckpt, model_config, runs, log_all, produced,
                 last_gtw>>
  /\ UNCHANGED committed
  /\ UNCHANGED <<rvars, tvars, hvars, kvars, svars>>

\* How the steps of step5_deploy_model end:
\*   "config_write_fails"  writing model_config.json raises (line 325)
\*   "restart_fails"       manage.sh restart exits non-zero (line 322)
\*   "healthy"/"unhealthy" _health_check returns True / False (ignored)
\*   "health_raises"       _health_check raises (caught at line 325)
DeployOutcomes ==
  {"healthy", "unhealthy", "health_raises", "config_write_fails",
   "restart_fails"}

\* Lines 318-327: True unless an exception was caught; the value
\* _health_check returns is not read.
DeploySucceeds(res) == res \in {"healthy", "unhealthy"}

Step5DeployModelRollsBack(res) ==
  /\ pc = "deploy"
  /\ LET success == DeploySucceeds(res) IN
       /\ model_config' = IF success THEN model_path ELSE model_config
       /\ trace' = Append(trace, [phase |-> "deploy",
                                  result |-> IF success THEN "ok" ELSE "fail"])
       /\ IF Proceeds(success)
          THEN Exit("completed", 0)
          ELSE Exit("aborted_deploy", 0)
  /\ UNCHANGED <<clock, ckpt, eval_history, runs, log_all, produced,
                 last_gtw>>
  /\ UNCHANGED committed
  /\ UNCHANGED hist_attempts
  /\ UNCHANGED <<rvars, tvars, hvars, kvars, svars>>

\* run_cron lines 358-364: step5_deploy_model(model_path), lines 291-327,
\* its steps ending as res.
Step5DeployModel(res) ==
  /\ pc = "deploy"
  /\ LET success == DeploySucceeds(res) IN
       /\ model_config' = IF res = "config_write_fails" THEN model_config
                          ELSE model_path
       /\ trace' = Append(trace, [phase |-> "deploy",
                                  result |-> IF success THEN "ok" ELSE "fail"])
       /\ IF Proceeds(success)
          THEN Exit("completed", 0)
          ELSE Exit("aborted_deploy", 0)
  /\ UNCHANGED <<clock, ckpt, eval_history, runs, log_all, produced,
                 last_gtw>>
  /\ UNCHANGED committed
  /\ UNCHANGED hist_attempts
  /\ UNCHANGED <<rvars, tvars, hvars, kvars, svars>>

\* The operating system kills the orchestrator process (SIGKILL, exit
\* status 137) at any point of run_cron.  A kill that falls between the
\* open(..., 'w') and the end of json.dump of a write (lines 57-63, 80-81,
\* 131-132) leaves the file truncated or half-written.
KillRun ==
  /\ pc \in {"window", "data", "commit", "train", "deploy"}
  /\ \E midwrite \in BOOLEAN :
       LET writes_ckpt ==
             \/ pc = "window" /\ ~LoadWindow(ckpt, clock, weeks_back).raised
             \/ pc = "commit" /\ ~UpdatedCheckpoint(ckpt, all_paths).failed
           writes_hist == pc = "train" /\ eval_history.kind # "invalid"
       IN /\ midwrite => (writes_ckpt \/ writes_hist)
          /\ ckpt' = IF midwrite /\ writes_ckpt THEN InvalidFile ELSE ckpt
          /\ eval_history' = IF midwrite /\ writes_hist THEN InvalidHistory
                              ELSE eval_history
          /\ last_gtw' = [last_gtw EXCEPT !.valid =
                            last_gtw.valid /\ ~(midwrite /\ writes_ckpt)]
  /\ trace' = Append(trace, [phase |-> pc, result |-> "killed"])
  /\ Exit("killed", 137)
  /\ UNCHANGED <<clock, model_config, runs, log_all, produced, committed>>
  /\ UNCHANGED hist_attempts
  /\ UNCHANGED <<rvars, tvars, hvars, kvars>>

Kill == KillRun /\ UNCHANGED svars

\* ------------------------------------------------------- rate_limiter.py
\* RateLimiter(service_name, max_calls, period_seconds): the limiter of
\* line 47 and the limiter of tests/test_rate_limiter.py line 12.
Limiters ==
  [yfinance   |-> [max_calls |-> 1, period_seconds |-> 1],
   test_basic |-> [max_calls |-> 2, period_seconds |-> 2]]

Services == DOMAIN Limiters

\* rl_slept tells no sleep, one sleep and more than one sleep apart.
SleepsCounted == 2

KeyShared(service_name) == <<"rate_limit", "">>

\* Line 17: self.key = f"rate_limit:{service_name}"
Key(service_name) == <<"rate_limit", service_name>>

\* The keys of the store the limiters use.
Keys == {Key(s) : s \in Services}
Procs == {"p1", "p2"}

PruneTooEarly(calls, now, period) ==
  SelectSeq(calls, LAMBDA t : now - t < period - 1)

\* Line 29: calls = [t for t in calls if now - t < self.period_seconds]
Prune(calls, now, period) ==
  SelectSeq(calls, LAMBDA t : now - t < period)

HasSlotInclusive(calls, max_calls) == Len(calls) <= max_calls

\* Line 31: if len(calls) < self.max_calls
HasSlot(calls, max_calls) == Len(calls) < max_calls

SleepTimeSignSlip(calls, now, period) == period + (now - calls[1])

\* Line 38: sleep_time = self.period_seconds - (now - calls[0])
SleepTime(calls, now, period) == period - (now - calls[1])

InitRateLimiter ==
  /\ rtime = 0
  /\ cache = [k \in Keys |-> <<>>]
  /\ rl_pc = [p \in Procs |-> "idle"]
  /\ rl_svc = [p \in Procs |-> "yfinance"]
  /\ rl_now = [p \in Procs |-> 0]
  /\ rl_calls = [p \in Procs |-> <<>>]
  /\ rl_wake = [p \in Procs |-> 0]
  /\ rl_started = 0
  /\ rl_slept = [p \in Procs |-> 0]
  /\ admitted = <<>>

\* time.time() advances.
TickRL ==
  /\ rtime < MaxTime
  /\ rtime' = rtime + 1
  /\ UNCHANGED <<cache, rl_pc, rl_svc, rl_now, rl_calls, rl_wake,
                 rl_started, rl_slept, admitted>>
  /\ UNCHANGED <<pvars, tvars, hvars, kvars, svars>>

\* A process calls wait_if_needed on the limiter of a service (line 19).
CallWait(p) ==
  /\ rl_pc[p] = "idle"
  /\ rl_started < MaxCallsStarted
  /\ \E s \in Services : rl_svc' = [rl_svc EXCEPT ![p] = s]
  /\ rl_started' = rl_started + 1
  /\ rl_slept' = [rl_slept EXCEPT ![p] = 0]
  /\ rl_pc' = [rl_pc EXCEPT ![p] = "now"]
  /\ UNCHANGED <<rtime, cache, rl_now, rl_calls, rl_wake, admitted>>
  /\ UNCHANGED <<pvars, tvars, hvars, kvars, svars>>

\* Line 24: now = time.time()
ReadNow(p) ==
  /\ rl_pc[p] = "now"
  /\ rl_now' = [rl_now EXCEPT ![p] = rtime]
  /\ rl_pc' = [rl_pc EXCEPT ![p] = "get"]
  /\ UNCHANGED <<rtime, cache, rl_svc, rl_calls, rl_wake, rl_started, rl_slept, admitted>>
  /\ UNCHANGED <<pvars, tvars, hvars, kvars, svars>>

\* Lines 26-33 and 38-41: cache.get, the pruning and the decision; a full
\* window starts the sleep.
CacheGet(p) ==
  /\ rl_pc[p] = "get"
  /\ LET lim   == Limiters[rl_svc[p]]
         calls == Prune(cache[Key(rl_svc[p])], rl_now[p], lim.period_seconds)
     IN IF HasSlot(calls, lim.max_calls)
        THEN /\ rl_calls' = [rl_calls EXCEPT ![p] = Append(calls, rl_now[p])]
             /\ rl_pc' = [rl_pc EXCEPT ![p] = "set"]
             /\ UNCHANGED rl_wake
        ELSE /\ rl_calls' = [rl_calls EXCEPT ![p] = calls]
             /\ rl_wake' = [rl_wake EXCEPT ![p] =
                   rtime + SleepTime(calls, rl_now[p], lim.period_seconds)]
             /\ rl_pc' = [rl_pc EXCEPT ![p] = "sleep"]
  /\ UNCHANGED <<rtime, cache, rl_svc, rl_now, rl_started, rl_slept, admitted>>
  /\ UNCHANGED <<pvars, tvars, hvars, kvars, svars>>

\* Lines 34-35: cache.set(self.key, calls); return
StoreCalls(p) ==
  /\ rl_pc[p] = "set"
  /\ cache' = [cache EXCEPT ![Key(rl_svc[p])] = rl_calls[p]]
  /\ rl_pc' = [rl_pc EXCEPT ![p] = "idle"]
  /\ rl_calls' = [rl_calls EXCEPT ![p] = <<>>]
  /\ rl_slept' = [rl_slept EXCEPT ![p] = 0]
  /\ UNCHANGED <<rtime, rl_svc, rl_now, rl_wake, rl_started>>
  /\ UNCHANGED <<pvars, tvars, hvars, kvars, svars>>

\* Lines 34-35, the call that returns being recorded.
CacheSet(p) ==
  /\ StoreCalls(p)
  /\ admitted' = Append(admitted, [svc |-> rl_svc[p], t |-> rl_now[p], by |-> p])

WakeUpAdmits(p) ==
  /\ rl_pc[p] = "sleep"
  /\ rtime >= rl_wake[p]
  /\ rl_pc' = [rl_pc EXCEPT ![p] = "set"]
  /\ rl_calls' = [rl_calls EXCEPT ![p] = Append(rl_calls[p], rl_now[p])]
  /\ rl_slept' = [rl_slept EXCEPT ![p] = rl_slept[p] + 1]
  /\ UNCHANGED <<rtime, cache, rl_svc, rl_now, rl_wake, rl_started, admitted>>
  /\ UNCHANGED <<pvars, tvars, hvars, kvars, svars>>

\* Line 41: time.sleep(sleep_time) returns, and the loop starts again.
WakeUp(p) ==
  /\ rl_pc[p] = "sleep"
  /\ rtime >= rl_wake[p]
  /\ rl_pc' = [rl_pc EXCEPT ![p] = "now"]
  /\ rl_calls' = [rl_calls EXCEPT ![p] = <<>>]
  /\ rl_slept' = [rl_slept EXCEPT ![p] =
                    IF rl_slept[p] < SleepsCounted THEN rl_slept[p] + 1
                    ELSE rl_slept[p]]
  /\ UNCHANGED <<rtime, cache, rl_svc, rl_now, rl_wake, rl_started, admitted>>
  /\ UNCHANGED <<pvars, tvars, hvars, kvars, svars>>

NextRL ==
  \/ TickRL
  \/ \E p \in Procs : CallWait(p)
  \/ \E p \in Procs : ReadNow(p)
  \/ \E p \in Procs : CacheGet(p)
  \/ \E p \in Procs : CacheSet(p)
  \/ \E p \in Procs : WakeUp(p)

Init ==
  InitPipeline /\ InitRateLimiter /\ InitNoHealthCheck /\ InitNoDaemon

\* The checkpoint files a process may find: absent, unparsable, valid JSON
\* that is no object, and objects holding any subset of the four keys.
CheckpointFiles ==
  {AbsentFile, InvalidFile, NonObjFile} \cup
  {ObjFile(keys, led, led * UnitsPerDay, "dow", dp) :
     keys \in SUBSET CkptKeys, led \in {0, 1},
     dp \in {<<>>, <<DatasetPath("dow", 0, 0)>>}}

\* One run that finds an arbitrary checkpoint file, left by earlier runs
\* or by anything else that wrote it.
InitAnyCkpt ==
  /\ InitRateLimiter
  /\ InitNoDaemon
  /\ InitNoHealthCheck
  /\ clock = 0
  /\ ckpt \in CheckpointFiles
  /\ eval_history = AbsentHistory
  /\ model_config = ""
  /\ pc = "idle"
  /\ runs = MaxRuns - 1
  /\ weeks_back = 0
  /\ index_name = ""
  /\ start_date = 0
  /\ end_date = 0
  /\ existing_paths = <<>>
  /\ all_paths = <<>>
  /\ model_path = ""
  /\ trace = <<>>
  /\ outcome = "none"
  /\ exit_code = 0
  /\ log_all = {}
  /\ produced = <<>>
  /\ ckpt_before = AbsentFile
  /\ last_gtw = [valid |-> FALSE, end |-> 0]
  /\ prev_gtw = [valid |-> FALSE, end |-> 0]
  /\ committed = StoredPaths(ckpt)
  /\ hist_attempts = 0
  /\ t_out = NoOut
  /\ InitNoTraining
  /\ InitNoSaves

\* A state between two runs, after a run whose commit completed: the
\* checkpoint is the one get_time_window and the commit of that run wrote.
InitKill ==
  /\ InitRateLimiter
  /\ InitNoDaemon
  /\ InitNoHealthCheck
  /\ clock = 0
  /\ ckpt = ObjFile(CkptKeys, 0, 0, "dow", <<DatasetPath("dow", -14, 0)>>)
  /\ eval_history = AbsentHistory
  /\ model_config = ""
  /\ pc = "idle"
  /\ runs = 0
  /\ weeks_back = 0
  /\ index_name = ""
  /\ start_date = 0
  /\ end_date = 0
  /\ existing_paths = <<>>
  /\ all_paths = <<>>
  /\ model_path = ""
  /\ trace = <<>>
  /\ outcome = "aborted_train"
  /\ exit_code = 0
  /\ log_all = {}
  /\ produced = StoredPaths(ckpt)
  /\ ckpt_before = AbsentFile
  /\ last_gtw = [valid |-> TRUE, end |-> 0]
  /\ prev_gtw = [valid |-> FALSE, end |-> 0]
  /\ committed = StoredPaths(ckpt)
  /\ hist_attempts = 0
  /\ t_out = NoOut
  /\ InitNoTraining
  /\ InitNoSaves

Next ==
  \/ Tick
  \/ StartRun
  \/ GetTimeWindow
  \/ Step1To3DataPipeline
  \/ UpdateCheckpointDatasetPaths
  \/ \E proc \in ProcOutcomes, log \in RunLogs, dir \in RunModelsDirs :
       Step4TrainLora(proc, log, dir)
  \/ \E res \in DeployOutcomes : Step5DeployModel(res)

Spec == Init /\ [][Next]_vars

SpecAnyCkpt == InitAnyCkpt /\ [][Next]_vars

NextKill == Next \/ Kill

\* Runs that the operating system may kill, after a run that committed.
SpecKill == InitKill /\ [][NextKill]_vars

\* The lines a training log is made of, and the logs of at most
\* MaxLogLines lines.
LogLines ==
  {LogLine("other", "")}
  \cup {LogLine("path", q) : q \in PathNames}
  \cup {LogLine("metrics", m) : m \in MetricsPayloads}

Logs ==
  {[exists |-> TRUE, lines |-> l] :
     l \in UNION {[1..k -> LogLines] : k \in 0..MaxLogLines}}

Mtimes == {1, 2}

Subdirs == [name : PathNames, mtime : Mtimes]

ModelsDirs ==
  {MissingModelsDir, EmptyModelsDir}
  \cup {[exists |-> TRUE, subdirs |-> <<a>>] : a \in Subdirs}
  \cup {[exists |-> TRUE, subdirs |-> <<ab[1], ab[2]>>] :
          ab \in {x \in Subdirs \X Subdirs : x[1].name # x[2].name}}

TrainHistoryFiles == {AbsentHistory, InvalidHistory, NoListHistory}

\* run_cron at line 352, after a first run's window, acquisition and
\* commit: step4_train_lora is about to run on any log, any models
\* directory and any evaluation history file.
InitTrain ==
  /\ InitRateLimiter
  /\ InitNoDaemon
  /\ InitNoHealthCheck
  /\ clock = 0
  /\ ckpt = ObjFile(CkptKeys, 0, 0, "dow", <<DatasetPath("dow", -14, 0)>>)
  /\ eval_history \in TrainHistoryFiles
  /\ model_config = ""
  /\ pc = "train"
  /\ runs = 1
  /\ weeks_back = 2
  /\ index_name = "dow"
  /\ start_date = -14
  /\ end_date = 0
  /\ existing_paths = <<>>
  /\ all_paths = <<DatasetPath("dow", -14, 0)>>
  /\ model_path = ""
  /\ trace = <<[phase |-> "window", result |-> "none"],
               [phase |-> "data", result |-> "ok"],
               [phase |-> "commit", result |-> "none"]>>
  /\ outcome = "none"
  /\ exit_code = 0
  /\ log_all = {}
  /\ produced = all_paths
  /\ ckpt_before = AbsentFile
  /\ last_gtw = [valid |-> TRUE, end |-> 0]
  /\ prev_gtw = [valid |-> FALSE, end |-> 0]
  /\ committed = all_paths
  /\ hist_attempts = 0
  /\ t_out = NoOut
  /\ tlog \in Logs
  /\ models_dir \in ModelsDirs
  /\ t_proc \in ProcOutcomes
  /\ d_res = "healthy"
  /\ InitNoSaves

NextTrain == Step4TrainLora(t_proc, tlog, models_dir)

\* The training phase on every log and models directory.
SpecTrain == InitTrain /\ [][NextTrain]_vars

\* The records _save_eval_history is called with: a metrics map, {}, or a
\* metrics value that is no map.
HistEntries ==
  {[num_datasets |-> 1, model_path |-> q, metrics |-> m] :
     q \in PathNames, m \in {"m1", "empty", "null"}}

\* evaluation_history.json as a call may find it.
HistoryFiles ==
  {AbsentHistory, InvalidHistory, NoListHistory}
  \cup {[kind |-> "obj", history |-> h] :
          h \in UNION {[1..k -> HistEntries] : k \in 0..1}}

\* The arguments of a call: those records, and records whose metrics map
\* has a key named like a field of the record.
SaveArguments ==
  HistEntries
  \cup {[num_datasets |-> 1, model_path |-> q, metrics |-> "clash"] :
          q \in PathNames}

InitHist ==
  /\ InitRateLimiter
  /\ InitNoDaemon
  /\ InitNoHealthCheck
  /\ InitNoTraining
  /\ clock = 0
  /\ ckpt = AbsentFile
  /\ eval_history \in HistoryFiles
  /\ model_config = ""
  /\ pc = "idle"
  /\ runs = 0
  /\ weeks_back = 0
  /\ index_name = ""
  /\ start_date = 0
  /\ end_date = 0
  /\ existing_paths = <<>>
  /\ all_paths = <<>>
  /\ model_path = ""
  /\ trace = <<>>
  /\ outcome = "none"
  /\ exit_code = 0
  /\ log_all = {}
  /\ produced = <<>>
  /\ ckpt_before = AbsentFile
  /\ last_gtw = [valid |-> FALSE, end |-> 0]
  /\ prev_gtw = [valid |-> FALSE, end |-> 0]
  /\ committed = <<>>
  /\ hist_attempts = 0
  /\ t_out = NoOut
  /\ h_start = eval_history
  /\ h_given = <<>>
  /\ h_write_failed = FALSE

\* One call of _save_eval_history (lines 116-135).
SaveEvalHistoryCall ==
  /\ Len(h_given) < MaxSaves
  /\ \E entry \in SaveArguments, hw \in WriteOutcomes :
       /\ AppendedHistory(eval_history, entry).failed => hw = "ok"
       /\ eval_history' = SaveEvalHistory(eval_history, entry, hw)
       /\ h_given' = Append(h_given, entry)
       /\ h_write_failed' = (h_write_failed \/ hw # "ok")
  /\ UNCHANGED <<clock, ckpt, model_config, pc, runs, weeks_back,
                 index_name, start_date, end_date, existing_paths, all_paths,
                 model_path, trace, outcome, exit_code, log_all, produced,
                 ckpt_before, last_gtw, prev_gtw, committed, hist_attempts,
                 t_out>>
  /\ UNCHANGED <<h_start, rvars, tvars, kvars, svars>>

NextHist == SaveEvalHistoryCall

\* Calls of _save_eval_history on any evaluation history file.
SpecHist == InitHist /\ [][NextHist]_vars

\* run_cron at line 358, after a first run's window, acquisition, commit
\* and training: step5_deploy_model is about to run on the model path
\* training returned, over any earlier model_config.json.
InitDeploy ==
  /\ InitRateLimiter
  /\ InitNoDaemon
  /\ InitNoHealthCheck
  /\ clock = 0
  /\ ckpt = ObjFile(CkptKeys, 0, 0, "dow", <<DatasetPath("dow", -14, 0)>>)
  /\ eval_history \in HistoryFiles
  /\ model_config \in {""} \cup PathNames
  /\ pc = "deploy"
  /\ runs = 1
  /\ weeks_back = 2
  /\ index_name = "dow"
  /\ start_date = -14
  /\ end_date = 0
  /\ existing_paths = <<>>
  /\ all_paths = <<DatasetPath("dow", -14, 0)>>
  /\ model_path \in PathNames
  /\ trace = <<[phase |-> "window", result |-> "none"],
               [phase |-> "data", result |-> "ok"],
               [phase |-> "commit", result |-> "none"],
               [phase |-> "train", result |-> "ok"]>>
  /\ outcome = "none"
  /\ exit_code = 0
  /\ log_all = {}
  /\ produced = all_paths
  /\ ckpt_before = AbsentFile
  /\ last_gtw = [valid |-> TRUE, end |-> 0]
  /\ prev_gtw = [valid |-> FALSE, end |-> 0]
  /\ committed = all_paths
  /\ hist_attempts = 1
  /\ t_out = [sentinel |-> model_path, metrics |-> "m1"]
  /\ tlog = [exists |-> TRUE,
             lines |-> <<LogLine("path", model_path), LogLine("metrics", "m1")>>]
  /\ models_dir = [exists |-> TRUE,
                   subdirs |-> <<[name |-> model_path, mtime |-> 1]>>]
  /\ t_proc = "exit_zero"
  /\ d_res \in DeployOutcomes
  /\ InitNoSaves

NextDeploy == Step5DeployModel(d_res)

\* The deployment phase, its steps ending in every way.
SpecDeploy == InitDeploy /\ [][NextDeploy]_vars

\* --index: choices=["dow", "euro", "crypto"] (line 370), of which two.
MainIndexChoices == {"dow", "euro"}

\* A process is started with --run, the default --weeks and any --index.
StartRunAnyIndex ==
  /\ \E idx \in MainIndexChoices : EnterRun(2, idx)
  /\ UNCHANGED svars

NextIndex ==
  \/ StartRunAnyIndex
  \/ GetTimeWindow
  \/ Step1To3DataPipeline
  \/ UpdateCheckpointDatasetPaths
  \/ \E proc \in ProcOutcomes, log \in RunLogs, dir \in RunModelsDirs :
       Step4TrainLora(proc, log, dir)
  \/ \E res \in DeployOutcomes : Step5DeployModel(res)

\* Runs for any index, one after the other, over one checkpoint file.
SpecIndex == Init /\ [][NextIndex]_vars

\* The lists _update_checkpoint_dataset_paths is called with.
CommitPaths ==
  {<<>>, <<DatasetPath("dow", -14, 0)>>,
   <<DatasetPath("dow", 0, 0), DatasetPath("dow", 0, 1)>>}

\* run_cron at line 349: _update_checkpoint_dataset_paths is about to run
\* with any list, over any checkpoint file (ckpt_before: the file as the
\* call finds it).
InitCommit ==
  /\ InitRateLimiter
  /\ InitNoHealthCheck
  /\ InitNoDaemon
  /\ clock = 0
  /\ ckpt \in CheckpointFiles
  /\ eval_history = AbsentHistory
  /\ model_config = ""
  /\ pc = "commit"
  /\ runs = 1
  /\ weeks_back = 2
  /\ index_name = "dow"
  /\ start_date = 0
  /\ end_date = 0
  /\ existing_paths = <<>>
  /\ all_paths \in CommitPaths
  /\ model_path = ""
  /\ trace = <<[phase |-> "window", result |-> "none"],
               [phase |-> "data", result |-> "ok"]>>
  /\ outcome = "none"
  /\ exit_code = 0
  /\ log_all = {}
  /\ produced = all_paths
  /\ ckpt_before = ckpt
  /\ last_gtw = [valid |-> FALSE, end |-> 0]
  /\ prev_gtw = [valid |-> FALSE, end |-> 0]
  /\ committed = StoredPaths(ckpt)
  /\ hist_attempts = 0
  /\ t_out = NoOut
  /\ InitNoTraining
  /\ InitNoSaves

NextCommit == UpdateCheckpointDatasetPaths

\* One call of _update_checkpoint_dataset_paths on any checkpoint file.
SpecCommit == InitCommit /\ [][NextCommit]_vars

\* ---------------------------------------------------- apscheduler_daemon.py
\* run_pipeline lines 33-43: subprocess.run starts cron_pipeline.py with
\* --run --index dow --weeks 2 and waits for it, for 3600 seconds at most.
RunPipelineStart ==
  /\ s_report # "running"
  /\ EnterRun(2, "dow")
  /\ s_elapsed' = 0
  /\ s_report' = "running"

\* Time passes while the process runs; subprocess.run does not wait beyond
\* its timeout.
RunElapses ==
  /\ s_report = "running"
  /\ pc # "idle"
  /\ s_elapsed < RunTimeout
  /\ s_elapsed' = s_elapsed + 1
  /\ UNCHANGED s_report
  /\ UNCHANGED <<pvars, rvars, tvars, hvars, kvars>>

TimeoutReportedAsFailure == "failed"

\* Line 55: logger.error("Pipeline timeout (exceeded 1 hour)")
TimeoutReport == "timeout"

\* Lines 42 and 54-55: the timeout expires while the process still runs;
\* subprocess.run kills it and raises TimeoutExpired.
RunPipelineTimeoutExpired ==
  /\ s_report = "running"
  /\ s_elapsed = RunTimeout
  /\ KillRun
  /\ s_report' = TimeoutReport
  /\ UNCHANGED s_elapsed

\* Lines 45-52: the process ended by itself; its exit status is reported.
RunPipelineReturns ==
  /\ s_report = "running"
  /\ pc = "idle"
  /\ s_report' = IF exit_code = 0 THEN "success" ELSE "failed"
  /\ UNCHANGED s_elapsed
  /\ UNCHANGED <<pvars, rvars, tvars, hvars, kvars>>

\* Lines 56-57: subprocess.run raises something else (the interpreter
\* cannot be started); no process runs.
RunPipelineError ==
  /\ s_report # "running"
  /\ pc = "idle"
  /\ runs < MaxRuns
  /\ s_report' = "error"
  /\ UNCHANGED s_elapsed
  /\ UNCHANGED <<pvars, rvars, tvars, hvars, kvars>>

\* One scheduled run of the daemon over any checkpoint file.
InitDaemon == InitAnyCkpt

NextDaemon ==
  \/ RunPipelineStart
  \/ RunPipelineError
  \/ RunElapses
  \/ GetTimeWindow
  \/ Step1To3DataPipeline
  \/ UpdateCheckpointDatasetPaths
  \/ \E proc \in ProcOutcomes, log \in RunLogs, dir \in RunModelsDirs :
       Step4TrainLora(proc, log, dir)
  \/ \E res \in DeployOutcomes : Step5DeployModel(res)
  \/ RunPipelineTimeoutExpired
  \/ RunPipelineReturns

\* The processes the scheduler daemon starts.
SpecDaemon == InitDaemon /\ [][NextDaemon]_vars

\* wait_if_needed called by one process only, on limiters of any service.
NextRL1 ==
  \/ TickRL
  \/ CallWait("p1")
  \/ ReadNow("p1")
  \/ CacheGet("p1")
  \/ CacheSet("p1")
  \/ WakeUp("p1")

\* The rate limiter with a single caller.
SpecRL1 == Init /\ [][NextRL1]_vars

\* The longest period_seconds of the limiters.
MaxPeriod ==
  CHOOSE n \in {Limiters[s].period_seconds : s \in Services} :
    \A s \in Services : Limiters[s].period_seconds <= n

\* At MaxTime, an instant before Oldest is outside the window of every
\* limiter, for this and every later value of time.time().
Oldest == MaxTime - MaxPeriod

\* A list of instants, one unit of time later, counted from an origin one
\* unit later: the instants that fall before Oldest are dropped.
Shifted(calls) ==
  LET kept == SelectSeq(calls, LAMBDA t : t - 1 >= Oldest)
  IN [i \in 1..Len(kept) |-> kept[i] - 1]

\* An instant counted from an origin one unit later; what falls before
\* Oldest is counted as Oldest.
ShiftedInstant(t) == IF t - 1 >= Oldest THEN t - 1 ELSE Oldest

\* time.time() advances from MaxTime: the origin of time moves one unit
\* forward, so that time.time() stays MaxTime and every recorded instant
\* is one unit less. A stored instant before Oldest is older than every
\* period_seconds, so line 29 drops it at the next call; no call is
\* between its lines 24 and 34 when the origin moves.
TimeShifts ==
  /\ rtime = MaxTime
  /\ \A p \in Procs : rl_pc[p] \notin {"get", "set"}
  /\ cache' = [k \in Keys |-> Shifted(cache[k])]
  /\ rl_calls' = [p \in Procs |-> Shifted(rl_calls[p])]
  /\ rl_now' = [p \in Procs |-> ShiftedInstant(rl_now[p])]
  /\ rl_wake' = [p \in Procs |-> ShiftedInstant(rl_wake[p])]
  /\ UNCHANGED <<rtime, rl_pc, rl_svc, rl_started, rl_slept, admitted>>
  /\ UNCHANGED <<pvars, tvars, hvars, kvars, svars>>

\* A process calls wait_if_needed (line 19), any number of times.
CallWaitAgain(p) ==
  /\ rl_pc[p] = "idle"
  /\ \E s \in Services : rl_svc' = [rl_svc EXCEPT ![p] = s]
  /\ rl_slept' = [rl_slept EXCEPT ![p] = 0]
  /\ rl_pc' = [rl_pc EXCEPT ![p] = "now"]
  /\ UNCHANGED <<rtime, cache, rl_now, rl_calls, rl_wake, rl_started,
                 admitted>>
  /\ UNCHANGED <<pvars, tvars, hvars, kvars, svars>>

\* Lines 34-35, the calls that return being no longer recorded.
CacheSetAgain(p) == StoreCalls(p) /\ UNCHANGED admitted

\* The steps of process p inside wait_if_needed.
Runs(p) == ReadNow(p) \/ CacheGet(p) \/ CacheSetAgain(p) \/ WakeUp(p)

\* An empty store at the instant MaxTime.
InitForever ==
  /\ InitPipeline
  /\ InitNoHealthCheck
  /\ InitNoDaemon
  /\ rtime = MaxTime
  /\ cache = [k \in Keys |-> <<>>]
  /\ rl_pc = [p \in Procs |-> "idle"]
  /\ rl_svc = [p \in Procs |-> "yfinance"]
  /\ rl_now = [p \in Procs |-> Oldest]
  /\ rl_calls = [p \in Procs |-> <<>>]
  /\ rl_wake = [p \in Procs |-> Oldest]
  /\ rl_started = 0
  /\ rl_slept = [p \in Procs |-> 0]
  /\ admitted = <<>>

NextRLForever ==
  \/ TimeShifts
  \/ \E p \in Procs : CallWaitAgain(p)
  \/ \E p \in Procs : ReadNow(p)
  \/ \E p \in Procs : CacheGet(p)
  \/ \E p \in Procs : CacheSetAgain(p)
  \/ \E p \in Procs : WakeUp(p)

\* Processes that call wait_if_needed any number of times, while time
\* advances for ever and each process inside a call is scheduled fairly.
SpecRLFair ==
  /\ InitForever
  /\ [][NextRLForever]_vars
  /\ WF_vars(TimeShifts)
  /\ \A p \in Procs : WF_vars(Runs(p))

\* The rate limiter under concurrent callers.
SpecRL == Init /\ [][NextRL]_vars

\* --------------------------------------------------------- _health_check
\* How urllib.request.urlopen(url, timeout=5) at line 276 ends:
\*   "response"    it returns: the server answered with a success status
\*   "http_error"  the server answered with an error status (4xx, 5xx):
\*                 HTTPError, a subclass of URLError
\*   "refused"     nothing listens on the port: URLError
\*   "timeout"     no answer within 5 seconds: socket.timeout, an OSError
\*   "bad_status"  the peer answered with bytes that are no HTTP status
\*                 line: http.client.BadStatusLine, which is neither a
\*                 URLError nor an OSError
PollOutcomes == {"response", "http_error", "refused", "timeout", "bad_status"}

\* Line 279: except (urllib.error.URLError, OSError)
PollCaught(out) == out \in {"http_error", "refused", "timeout"}

\* Lines 276-278: urlopen returned, so True is returned.
PollReturns(out) == out = "response"

\* _health_check(7860, timeout_secs, interval_secs) is called at time 0.
InitHealth ==
  /\ InitPipeline
  /\ InitRateLimiter
  /\ InitNoDaemon
  /\ hc_pc = "call"
  /\ hc_cfg \in [timeout_secs : 1..MaxTimeout, interval_secs : 1..MaxInterval]
  /\ hc_deadline = 0
  /\ hc_polls = <<>>
  /\ hc_delay = 0
  /\ hc_result = "none"

\* Line 271: deadline = time.time() + timeout_secs
HealthCheckCall ==
  /\ hc_pc = "call"
  /\ hc_deadline' = rtime + hc_cfg.timeout_secs
  /\ hc_pc' = "test"
  /\ UNCHANGED <<hc_cfg, hc_polls, hc_delay, hc_result>>
  /\ UNCHANGED <<pvars, rvars, tvars, hvars, svars>>

\* Line 274: while time.time() < deadline; lines 284-288 when it is not.
HealthCheckTest ==
  /\ hc_pc = "test"
  /\ IF rtime < hc_deadline
     THEN /\ hc_pc' = "poll"
          /\ UNCHANGED hc_result
     ELSE /\ hc_pc' = "done"
          /\ hc_result' = "false"
  /\ UNCHANGED <<hc_cfg, hc_deadline, hc_polls, hc_delay>>
  /\ UNCHANGED <<pvars, rvars, tvars, hvars, svars>>

\* Lines 275-281: one poll, which takes the time d.
HealthCheckPoll ==
  /\ hc_pc = "poll"
  /\ \E out \in PollOutcomes, d \in 0..MaxDelay :
       /\ hc_polls' = Append(hc_polls, [at |-> rtime, out |-> out])
       /\ rtime' = rtime + d
       /\ hc_delay' = hc_delay + d
       /\ IF PollReturns(out)
          THEN /\ hc_pc' = "done"
               /\ hc_result' = "true"
          ELSE IF PollCaught(out)
          THEN /\ hc_pc' = "sleep"
               /\ UNCHANGED hc_result
          ELSE /\ hc_pc' = "done"
               /\ hc_result' = "raised"
  /\ UNCHANGED <<hc_cfg, hc_deadline>>
  /\ UNCHANGED <<cache, rl_pc, rl_svc, rl_now, rl_calls, rl_wake, rl_started, rl_slept,
                 admitted>>
  /\ UNCHANGED <<pvars, tvars, hvars, svars>>

\* Line 282: time.sleep(interval_secs), which returns after interval_secs
\* or later.
HealthCheckSleep ==
  /\ hc_pc = "sleep"
  /\ \E d \in 0..MaxDelay :
       /\ rtime' = rtime + hc_cfg.interval_secs + d
       /\ hc_delay' = hc_delay + d
  /\ hc_pc' = "test"
  /\ UNCHANGED <<hc_cfg, hc_deadline, hc_polls, hc_result>>
  /\ UNCHANGED <<cache, rl_pc, rl_svc, rl_now, rl_calls, rl_wake, rl_started, rl_slept,
                 admitted>>
  /\ UNCHANGED <<pvars, tvars, hvars, svars>>

NextHealth ==
  \/ HealthCheckCall
  \/ HealthCheckTest
  \/ HealthCheckPoll
  \/ HealthCheckSleep

\* One call of _health_check against any behaviour of the polled port.
SpecHealth == InitHealth /\ [][NextHealth]_vars

\* The same, with the process that runs _health_check being scheduled.
SpecHealthFair == SpecHealth /\ WF_vars(NextHealth)

\* =================================================================== claims

\* The admissions of service s whose recorded timestamp lies in the rolling
\* window of period_seconds that ends at instant w.
AdmittedInWindow(s, w) ==
  {i \in DOMAIN admitted :
     /\ admitted[i].svc = s
     /\ w - Limiters[s].period_seconds < admitted[i].t
     /\ admitted[i].t <= w}

\* C1: for every service and every interleaving of wait_if_needed calls by
\* processes sharing the cache, the calls that returned with admission
\* timestamps inside any rolling window of period_seconds never number more
\* than max_calls.
C1_AdmissionBound ==
  \A s \in Services, w \in 0..MaxTime :
    Cardinality(AdmittedInWindow(s, w)) <= Limiters[s].max_calls

\* No write of the checkpoint has failed: neither "Failed to save
\* checkpoint" (line 66) nor "Failed to update checkpoint dataset_paths"
\* (line 84) is in the log.
NoWriteError ==
  log_all \cap {"err_save_checkpoint", "err_update_checkpoint"} = {}

InRun == pc \in {"data", "commit", "train", "deploy"}

\* C2: when the previous get_time_window wrote its checkpoint and nothing
\* else has changed the boundary since, the start the next call returns is
\* the end the previous call returned.
C2_NonOverlap ==
  (InRun /\ prev_gtw.valid) => start_date = prev_gtw.end

C2_Witness ==
  /\ pc = "data"
  /\ prev_gtw.valid
  /\ produced # <<>>
  /\ start_date = prev_gtw.end
  /\ start_date < end_date

\* C3: a get_time_window call that rewrites last_end_date leaves the
\* checkpoint's dataset_paths as they were stored before the call, whatever
\* fields the checkpoint holds.
C3_WindowKeepsPaths ==
  (pc = "data" /\ last_gtw.valid) =>
     StoredPaths(ckpt) = StoredPaths(ckpt_before)

Last(seq) == seq[Len(seq)]

\* The artifact acquired last is the last entry of `paths`.
EndsWithNewArtifact(paths) ==
  /\ produced # <<>>
  /\ paths # <<>>
  /\ Last(paths) = Last(produced)

AbortsAtData == pc = "data" /\ pc' = "idle"

C8_ExitCode ==
  (pc = "idle" /\ outcome # "none") =>
     (exit_code = 0 <=> outcome = "completed")

\* A checkpoint file that is not valid JSON, or is valid JSON without
\* last_end_date, or is valid JSON that is no object.
Malformed(ck) ==
  \/ ck.kind \in {"invalid", "nonobj"}
  \/ ck.kind = "obj" /\ "last_end_date" \notin ck.keys

WindowRaised ==
  \E i \in DOMAIN trace : trace[i] = [phase |-> "window", result |-> "raised"]

\* C9: on every malformed checkpoint file get_time_window does not raise
\* and returns the start of the no-checkpoint case, the day that lies
\* weeks_back weeks before now.
C9_MalformedFallsBack ==
  /\ ~WindowRaised
  /\ (pc = "data" /\ Malformed(ckpt_before))
       => start_date = Date(clock) - 7 * weeks_back

\* C10: on a checkpoint that holds dataset_paths but no last_end_date,
\* get_time_window falls back to the lookback start, returns the stored
\* dataset_paths and writes them back; it returns the empty list only when
\* the file holds no readable list.
C10_SalvagesPaths ==
  /\ (/\ pc = "data"
      /\ ckpt_before.kind = "obj"
      /\ "last_end_date" \notin ckpt_before.keys
      /\ "dataset_paths" \in ckpt_before.keys)
       => /\ start_date = Date(clock) - 7 * weeks_back
          /\ existing_paths = ckpt_before.dataset_paths
          /\ (last_gtw.valid => StoredPaths(ckpt) = ckpt_before.dataset_paths)
  /\ (pc = "data" /\ existing_paths = <<>>)
       => StoredPaths(ckpt_before) = <<>>

\* C11: with no checkpoint file, for every weeks_back get_time_window returns
\* the current date as end, a start exactly 7 * weeks_back days before the
\* end, and no existing artifacts, and it creates the checkpoint.
C11_FirstRunWindow ==
  (pc = "data" /\ ckpt_before.kind = "absent") =>
     /\ end_date = Date(clock)
     /\ end_date - start_date = 7 * weeks_back
     /\ existing_paths = <<>>
     /\ ckpt.kind = "obj"

\* C12: after a run that was killed, also in the middle of a checkpoint
\* write, the next run's get_time_window does not raise and returns as
\* existing artifacts the dataset_paths of the last completed commit.
C12_KillResume ==
  /\ ~WindowRaised
  /\ (pc = "data" /\ outcome = "killed") => existing_paths = committed

\* The lines of the training log that carry the prefix `tag`.
LinesWith(tag) == {i \in DOMAIN tlog.lines : tlog.lines[i].tag = tag}

\* The payload of the last line that carries the prefix `tag`.
LastPayload(tag) ==
  LET last == CHOOSE i \in LinesWith(tag) : \A j \in LinesWith(tag) : j <= i
  IN tlog.lines[last].payload

\* step4_train_lora has run.
TrainDone == Len(trace) = 4 /\ trace[4].phase = "train"

\* C13: of several lines with the model-path prefix, and of several lines
\* with the metrics prefix (each with a JSON object as payload), the value
\* step4_train_lora takes is the payload of the last one.
C13_SentinelLastWins ==
  pc = "deploy" =>
    /\ LinesWith("path") # {} => t_out.sentinel = LastPayload("path")
    /\ (/\ LinesWith("metrics") # {}
        /\ \A i \in LinesWith("metrics") : tlog.lines[i].payload \in {"m1", "m2"})
         => t_out.metrics = LastPayload("metrics")

\* The training subprocess exited with code zero and a model directory can
\* be found.
TrainingFindsModel == t_proc = "exit_zero" /\ models_dir.subdirs # <<>>

\* C14: when the last metrics line is no valid JSON, _parse_eval_metrics
\* does not raise and returns {}; when the last metrics line is valid, a
\* malformed metrics line elsewhere does not keep its payload from being
\* the result.
C14_MalformedMetrics ==
  (TrainDone /\ TrainingFindsModel /\ LinesWith("metrics") # {}) =>
    /\ LastPayload("metrics") = "bad" =>
         /\ trace[4].result = "ok"
         /\ t_out.metrics = "empty"
    /\ LastPayload("metrics") \in {"m1", "m2"} =>
         /\ trace[4].result = "ok"
         /\ t_out.metrics = LastPayload("metrics")

\* C15: with no metrics line in the log, or no log file, the result of
\* _parse_eval_metrics is {} and nothing is raised, and the training phase
\* records a history entry without metric fields.
C15_NoMetricsStillRecorded ==
  /\ ParseEvalMetrics([exists |-> FALSE, lines |-> <<>>])
       = [raised |-> FALSE, metrics |-> "empty"]
  /\ (TrainDone /\ TrainingFindsModel /\ LinesWith("metrics") = {}) =>
       /\ trace[4].result = "ok"
       /\ t_out.metrics = "empty"
       /\ eval_history.kind = "obj"
       /\ eval_history.history # <<>>
       /\ Last(eval_history.history).metrics = "empty"

\* No line of the log names a model directory that exists.
NoUsableSentinel ==
  \A i \in LinesWith("path") : ~IsDir(tlog.lines[i].payload, models_dir)

\* The subdirectories of the models directory modified last.
MostRecentSubdirs ==
  {models_dir.subdirs[i].name : i \in
     {i \in DOMAIN models_dir.subdirs :
        \A j \in DOMAIN models_dir.subdirs :
          models_dir.subdirs[j].mtime <= models_dir.subdirs[i].mtime}}

\* C16: after a training process that exited with code zero and a log with
\* no usable model path, a successful step4_train_lora returns the
\* subdirectory modified last; with no subdirectory it returns failure; and
\* deployment is never reached without a model directory.
C16_MtimeFallback ==
  /\ (TrainDone /\ t_proc = "exit_zero" /\ NoUsableSentinel) =>
       IF models_dir.subdirs # <<>>
       THEN trace[4].result = "ok" =>
              (pc = "deploy" /\ model_path \in MostRecentSubdirs)
       ELSE trace[4].result = "fail"
  /\ pc = "deploy" => IsDir(model_path, models_dir)

\* C17: the three phase functions report every failure as a returned
\* failure: none of them lets an exception reach run_cron.
C17_PhasesNeverRaise ==
  \A i \in DOMAIN trace :
    trace[i].phase \in {"data", "train", "deploy"}
      => trace[i].result # "raised"

\* The training phase of the current run returned success.
TrainedOk ==
  \E i \in DOMAIN trace : trace[i] = [phase |-> "train", result |-> "ok"]

\* C18: the evaluation history gains an entry only in the step in which a
\* training phase returns success, and a run has called _save_eval_history
\* once when its training phase returned success and not at all otherwise.
C18_HistoryOnlyOnSuccess ==
  /\ [][Len(eval_history'.history) > Len(eval_history.history)
          => (pc = "train" /\ TrainedOk')]_vars
  /\ [](hist_attempts = IF TrainedOk THEN 1 ELSE 0)

C18_Witness ==
  /\ pc = "idle"
  /\ outcome = "aborted_train"
  /\ trace[4] = [phase |-> "train", result |-> "fail"]
  /\ hist_attempts = 0
  /\ Len(eval_history.history) = 1

\* The records that calls given these arguments append.
Recorded(given) == [i \in DOMAIN given |-> MergedEntry(given[i])]

MetricsAreMaps == \A i \in DOMAIN h_given : h_given[i].metrics # "null"

C20_CorruptHistoryRecovered ==
  (/\ h_start.kind \in {"absent", "invalid", "nolist"}
   /\ Len(h_given) = 1
   /\ MetricsAreMaps
   /\ ~h_write_failed) =>
    /\ eval_history.kind = "obj"
    /\ eval_history.history # <<>>
    /\ Last(eval_history.history) = MergedEntry(h_given[1])

\* C21: _save_eval_history raises nothing, whatever the history file holds,
\* whatever metrics value it is given and however its write ends: a training
\* phase that called it returns success with the model path it found.
C21_HistoryNeverFailsTraining ==
  (TrainDone /\ hist_attempts = 1) =>
    /\ trace[4].result = "ok"
    /\ pc = "deploy"
    /\ IsDir(model_path, models_dir)

C21_Witness ==
  /\ pc = "deploy"
  /\ hist_attempts = 1
  /\ t_out.metrics = "null"
  /\ eval_history.kind = "invalid"
  /\ model_path = "M2"

\* The polls that received a response (an answer with an error status is
\* counted as no response, as the code counts it).
PollsAnswered == {i \in DOMAIN hc_polls : hc_polls[i].out = "response"}

\* _health_check returns once started.
HealthCheckTerminates == <>(hc_pc = "done")

\* C22: _health_check raises nothing when the connection fails; it returns
\* True at the first poll that receives a response and False when no poll
\* received one; it starts no poll at or after the deadline; and with
\* connections refused at once it has returned timeout_secs plus
\* interval_secs after its start, at the latest.
C22_HealthCheck ==
  /\ \A i \in DOMAIN hc_polls : hc_polls[i].at < hc_deadline
  /\ \A i \in PollsAnswered : i = Len(hc_polls)
  /\ hc_pc = "done" =>
       /\ PollsAnswered = {} => hc_result = "false"
       /\ PollsAnswered # {} => hc_result = "true"
       /\ (/\ hc_delay = 0
           /\ \A i \in DOMAIN hc_polls : hc_polls[i].out = "refused")
            => rtime <= hc_cfg.timeout_secs + hc_cfg.interval_secs

\* step5_deploy_model has run.
DeployDone == Len(trace) = 5 /\ trace[5].phase = "deploy"

\* C23: when model_config.json was written and the restart command
\* succeeded, step5_deploy_model returns success and the run completes as
\* successful, however the health check ended.
C23_HealthResultIgnored ==
  (DeployDone /\ d_res \notin {"config_write_fails", "restart_fails"}) =>
    /\ trace[5].result = "ok"
    /\ outcome = "completed"
    /\ model_config = tlog.lines[1].payload

\* The admissions of service s, in the order in which the calls returned.
SvcAdmitted(s) == SelectSeq(admitted, LAMBDA a : a.svc = s)

\* C24: with a single process, wait_if_needed returns only from an iteration
\* whose pruned list had fewer than max_calls entries, and an admission
\* that follows max_calls admissions of the service is stamped no earlier
\* than period_seconds after the oldest of them.
C24_NeverEarly ==
  /\ \A p \in Procs :
       rl_pc[p] = "set" => Len(rl_calls[p]) - 1 < Limiters[rl_svc[p]].max_calls
  /\ \A s \in Services :
       LET a == SvcAdmitted(s)
           n == Limiters[s].max_calls
       IN \A i \in 1..(Len(a) - n) :
            a[i + n].t - a[i].t >= Limiters[s].period_seconds

C24_Witness ==
  /\ Len(admitted) = 3
  /\ \A i \in 1..3 : admitted[i].svc = "test_basic"
  /\ admitted[1].t = 0
  /\ admitted[2].t = 0
  /\ admitted[3].t = 2
  /\ rl_wake["p1"] = 2

\* C25: under every interleaving of concurrent callers, the timestamp of
\* each call that returned is in the stored list of its service for as long
\* as it is younger than period_seconds.
C25_AdmissionsRecorded ==
  \A i \in DOMAIN admitted :
    LET s == admitted[i].svc IN
    rtime - admitted[i].t < Limiters[s].period_seconds
      => \E j \in DOMAIN cache[Key(s)] : cache[Key(s)][j] = admitted[i].t

\* The admissions of service s with a timestamp t such that
\* w - period_seconds <= t <= w.
AdmittedInClosedWindow(s, w) ==
  {i \in DOMAIN admitted :
     /\ admitted[i].svc = s
     /\ w - Limiters[s].period_seconds <= admitted[i].t
     /\ admitted[i].t <= w}

\* C26: with a single caller, at every instant up to now the admissions
\* stamped within the closed window of period_seconds that ends at that
\* instant number at most max_calls.
C26_ClosedWindow ==
  \A s \in Services, w \in 0..rtime :
    Cardinality(AdmittedInClosedWindow(s, w)) <= Limiters[s].max_calls

\* C26 as amended: the same for the window that is open at its older end,
\* w - period_seconds < t <= w.
C26_HalfOpenWindow ==
  \A s \in Services, w \in 0..rtime :
    Cardinality(AdmittedInClosedWindow(s, w)
                  \ {i \in DOMAIN admitted :
                       admitted[i].t = w - Limiters[s].period_seconds})
      <= Limiters[s].max_calls

C26_Witness ==
  /\ Len(admitted) = 2
  /\ admitted[1] = [svc |-> "yfinance", t |-> 0, by |-> "p1"]
  /\ admitted[2] = [svc |-> "yfinance", t |-> 1, by |-> "p1"]
  /\ rl_wake["p1"] = 1

\* C27: a process started by the daemon does not run beyond the timeout; a
\* process that still runs when the timeout expires is killed and reported
\* as timed out, and no process that ended by itself is reported so.
C27_RunTimeout ==
  /\ pc # "idle" => (s_report = "running" /\ s_elapsed <= RunTimeout)
  /\ s_report = "timeout" =>
       (pc = "idle" /\ outcome = "killed" /\ s_elapsed = RunTimeout)
  /\ (pc = "idle" /\ outcome = "killed") => s_report = "timeout"
  /\ s_report \in {"success", "failed"} =>
       (pc = "idle" /\ outcome \notin {"none", "killed"})

C27_Witness ==
  /\ s_report = "timeout"
  /\ outcome = "killed"
  /\ exit_code = 137
  /\ Len(trace) = 4
  /\ trace[4] = [phase |-> "train", result |-> "killed"]

\* _update_checkpoint_dataset_paths has run.
CommitDone == Len(trace) = 3 /\ trace[3].phase = "commit"

\* The fields of file b other than dataset_paths are those of file a.
SameOtherFields(a, b) ==
  /\ b.kind = "obj"
  /\ b.keys \ {"dataset_paths"} = a.keys \ {"dataset_paths"}
  /\ b.last_end_date = a.last_end_date
  /\ b.last_run_time = a.last_run_time
  /\ b.index_name = a.index_name

\* The call changed dataset_paths to its argument and nothing else; on no
\* file it created one that holds the argument.
CommitFrame ==
  /\ ckpt_before.kind = "obj" =>
       /\ SameOtherFields(ckpt_before, ckpt)
       /\ "dataset_paths" \in ckpt.keys
       /\ ckpt.dataset_paths = all_paths
  /\ ckpt_before.kind = "absent" =>
       ckpt = ObjFile({"dataset_paths"}, 0, 0, "", all_paths)

StoredInWindow(p) ==
  Prune(cache[Key(rl_svc[p])], rl_now[p], Limiters[rl_svc[p]].period_seconds)

\* C29: a blocked wait_if_needed call re-runs the whole check after each
\* sleep: it leaves the sleep for line 24 only, the `now` it decides with
\* was taken after the sleep ended, it is admitted only by a check of the
\* list as stored at that moment, and a list found full then makes it
\* sleep again.
C29_RecheckAfterSleep ==
  [][\A p \in Procs :
       /\ (rl_pc[p] = "sleep" /\ rl_pc'[p] # "sleep") =>
            (rl_pc'[p] = "now" /\ rl_slept'[p] >= 1)
       /\ (rl_slept'[p] > 0 /\ rl_pc'[p] \in {"get", "set"}) =>
            rl_now'[p] >= rl_wake'[p]
       /\ (rl_pc[p] # "set" /\ rl_pc'[p] = "set") =>
            /\ rl_pc[p] = "get"
            /\ HasSlot(StoredInWindow(p), Limiters[rl_svc[p]].max_calls)
            /\ rl_calls'[p] = Append(StoredInWindow(p), rl_now[p])
       /\ (rl_pc[p] = "get" /\ rl_pc'[p] # "get"
             /\ ~HasSlot(StoredInWindow(p), Limiters[rl_svc[p]].max_calls)) =>
            (rl_pc'[p] = "sleep" /\ rl_wake'[p] > rtime)
    ]_vars

\* A call that slept wakes to find the slot taken by another process's
\* later admission, and sleeps again.
C29_Witness ==
  \E p \in Procs :
    /\ rl_pc[p] = "sleep"
    /\ rl_slept[p] >= 1
    /\ rl_wake[p] > rtime
    /\ \E i \in DOMAIN admitted :
         /\ admitted[i].by # p
         /\ admitted[i].svc = rl_svc[p]
         /\ admitted[i].t > 0
         /\ \E j \in DOMAIN rl_calls[p] : rl_calls[p][j] = admitted[i].t

\* C30: the stored timestamp list of every service is ordered oldest first
\* (non-decreasing), whatever the interleaving of the callers.
C30_StoredListOrdered ==
  \A s \in Services :
    \A i, j \in DOMAIN cache[Key(s)] :
      i < j => cache[Key(s)][i] <= cache[Key(s)][j]

\* The list stored for a service.
StoredCalls(s) == cache[Key(s)]

\* Process p takes a step of wait_if_needed.
Steps(p) == rl_pc'[p] # rl_pc[p]

\* C31: limiters are independent per service name: the stored list of a
\* service changes only in the cache.set of a call on that service, and
\* whether a call is admitted or sleeps, and for how long, is decided by
\* its own service's list, max_calls and period_seconds.
C31_ServicesIndependent ==
  [][/\ \A s \in Services :
          StoredCalls(s)' # StoredCalls(s) =>
            \E p \in Procs :
              rl_svc[p] = s /\ rl_pc[p] = "set" /\ rl_pc'[p] = "idle"
     /\ \A p \in Procs :
          (rl_pc[p] = "get" /\ Steps(p)) =>
            LET lim  == Limiters[rl_svc[p]]
                own  == Prune(StoredCalls(rl_svc[p]), rl_now[p],
                              lim.period_seconds)
            IN IF Len(own) < lim.max_calls
               THEN rl_pc'[p] = "set" /\ rl_calls'[p] = Append(own, rl_now[p])
               ELSE /\ rl_pc'[p] = "sleep"
                    /\ rl_wake'[p] =
                         rtime + lim.period_seconds - (rl_now[p] - own[1])
    ]_vars

\* A call on yfinance sleeps on its full list while the list of
\* test_basic, holding another admission, has a free slot.
C31_Witness ==
  \E p \in Procs :
    /\ rl_pc[p] = "sleep"
    /\ rl_svc[p] = "yfinance"
    /\ Len(StoredCalls("yfinance")) = Limiters.yfinance.max_calls
    /\ Len(StoredCalls("test_basic")) = 1
    /\ StoredCalls("test_basic") # StoredCalls("yfinance")

NoDuplicates(seq) ==
  \A i, j \in DOMAIN seq : seq[i] = seq[j] => i = j

\* C32: accumulation is idempotent across re-runs: an acquisition that
\* returns a path already recorded in the checkpoint adds no duplicate to
\* the committed list.
C32_NoDuplicatePaths ==
  (NoDuplicates(existing_paths) /\ pc \in {"train", "deploy"}
     /\ "err_update_checkpoint" \notin log_all)
  => NoDuplicates(StoredPaths(ckpt))

\* C33: under every interleaving of wait_if_needed calls, the list stored
\* for a service never has more than max_calls entries.
C33_StoredListBounded ==
  \A s \in Services : Len(StoredCalls(s)) <= Limiters[s].max_calls

\* Concurrent callers were admitted beyond the limit of a window, and the
\* stored list is full.
C33_Witness ==
  \E s \in Services, w \in 0..MaxTime :
    /\ Cardinality(AdmittedInWindow(s, w)) > Limiters[s].max_calls
    /\ Limiters[s].max_calls > 1
    /\ Len(StoredCalls(s)) = Limiters[s].max_calls

\* The processes other than p are outside wait_if_needed.
OthersIdle(p) == \A q \in Procs \ {p} : rl_pc[q] = "idle"

\* Alone, a call sleeps once at most, for at most period_seconds.
ReturnsAfterOneSleep(p) ==
  /\ rl_slept[p] <= 1
  /\ rl_pc[p] = "sleep" =>
       rl_wake[p] - rtime <= Limiters[rl_svc[p]].period_seconds

\* C34: when time advances and each process is scheduled fairly, every
\* wait_if_needed call eventually returns, alone after at most one sleep
\* of at most period_seconds.
C34_EveryCallReturns ==
  \A p \in Procs :
    /\ ([]OthersIdle(p)) => []ReturnsAfterOneSleep(p)
    /\ (rl_pc[p] # "idle") ~> (rl_pc[p] = "idle")

\* C34 as amended: the same, for every call whose competitors eventually
\* stop calling.
C34_ReturnsOnceOthersStop ==
  \A p \in Procs :
    /\ ([]OthersIdle(p)) => []ReturnsAfterOneSleep(p)
    /\ (<>[]OthersIdle(p)) => ((rl_pc[p] # "idle") ~> (rl_pc[p] = "idle"))

\* A call that slept more than once, beyond MaxTime, is about to return.
C34_Witness ==
  \E p \in Procs :
    /\ rl_pc[p] = "set"
    /\ rl_slept[p] >= 2
    /\ rl_wake[p] < MaxTime
    /\ \E q \in Procs \ {p} : rl_pc[q] = "sleep" /\ rl_svc[q] = rl_svc[p]

\* C35: in every entry _save_eval_history writes, num_datasets and
\* model_path are the arguments of the call, whatever keys the metrics map
\* has.
C35_EntryFieldsAreArguments ==
  (h_start.kind \in {"absent", "obj"} /\ MetricsAreMaps /\ ~h_write_failed) =>
    /\ Len(eval_history.history) = Len(h_start.history) + Len(h_given)
    /\ \A i \in DOMAIN h_given :
         LET written == eval_history.history[Len(h_start.history) + i]
         IN /\ written.num_datasets = h_given[i].num_datasets
            /\ written.model_path = h_given[i].model_path

\* C36: every window get_time_window returns has start <= end, over the
\* runs of a pipeline that alone writes the checkpoint, the clock never
\* going backwards.
C36_WindowOrdered == InRun => start_date <= end_date

\* C37: the checkpoint a run has written records the index the run was
\* invoked with, and the dataset paths a run takes from the checkpoint
\* are those of runs for its own index.
C37_CheckpointPerIndex ==
  InRun =>
    /\ (ckpt.kind = "obj" /\ "index_name" \in ckpt.keys
          /\ "err_save_checkpoint" \notin log_all)
         => ckpt.index_name = index_name
    /\ \A i \in DOMAIN existing_paths : existing_paths[i][1] = index_name

\* C38: step5_deploy_model writes the model path it is given to the
\* deployment config before it requests the restart; when the restart
\* command fails the phase returns failure and the config still names the
\* new model.
C38_ConfigNotRolledBack ==
  [][(pc = "deploy" /\ pc' # "deploy"
        /\ d_res \in {"restart_fails", "health_raises"}) =>
       /\ model_config' = model_path
       /\ Last(trace').result = "fail"
       /\ outcome' = "aborted_deploy"
    ]_vars

\* The restart failed over a config that named another model.
C38_Witness ==
  /\ DeployDone
  /\ d_res = "restart_fails"
  /\ outcome = "aborted_deploy"
  /\ trace[5].result = "fail"
  /\ model_config = "M2"
  /\ tlog.lines[1].payload = "M2"

====
